---------------------------- MODULE Spec2Model ----------------------------
(***************************************************************************)
(* Model of life.c: the dispatcher game_of_life, the board codec           *)
(* (preprocessing_board / postprocessing_board), the per-cell transitions  *)
(* (do_cell / kill_cell / spawn_cell), the row-sliced worker               *)
(* worker_fuction_by_rows_encoding with its boundary mutexes and its       *)
(* two-rendezvous barrier protocol, and parallel_game_of_life.             *)
(*                                                                         *)
(* life.h and util.h are not part of the sources at hand.  The macros they *)
(* define (ALIVE, SPAWN, KILL, TOKILL, TOSPAWN, N_INC, N_DEC, BOARD, mod)  *)
(* are modelled from the written specification: one char per cell holding  *)
(* an alive flag and a neighbour count, row-major toroidal addressing.     *)
(***************************************************************************)
EXTENDS Integers, Sequences, FiniteSets, TLC

(***************************************************************************)
(* Bounds of the model.                                                    *)
(***************************************************************************)
\* largest board side explored by the parallel engine
MaxSize == 8
\* largest thread count (the macro NUM_THREADS is a build-time constant)
MaxThreads == 2
\* largest generation count
MaxGens == 2
\* number of primitive failures a run of FailSpec may see
MaxFailures == 1

(***************************************************************************)
(* Program constants.                                                      *)
(***************************************************************************)
\* life.c:177   if (nrows < 32) -> sequential
SeqLimit == 32
\* life.c:180   (nrows > 10000) || (ncols > 10000) -> NULL
SizeLimit == 10000
\* width of a char cell
CharRange == 256
\* position of the alive flag inside a cell
AliveFlag == 16

(***************************************************************************)
(* Encoded cell representation (life.h, modelled from the specification).  *)
(***************************************************************************)
\* plain alive/dead indicator of an encoded cell
ALIVE(cell) == (cell \div AliveFlag) % 2

\* the neighbour-count field
COUNT(cell) == cell % AliveFlag

\* set the alive flag, leave the count alone
SPAWN(cell) == IF ALIVE(cell) = 1 THEN cell ELSE (cell + AliveFlag) % CharRange

\* clear the alive flag, leave the count alone
KILL(cell) == IF ALIVE(cell) = 1 THEN cell - AliveFlag ELSE cell

\* an alive cell dies unless it has 2 or 3 live neighbours
TOKILL(cell) == COUNT(cell) \notin {2, 3}

\* a dead cell is born with exactly 3 live neighbours
TOSPAWN(cell) == COUNT(cell) = 3

\* toroidal index arithmetic (util.h)
mod(x, m) == x % m

\* row-major address of cell (i, j) in a board of leading dimension lda
BOARD(i, j, lda) == i * lda + j

\* ++ / -- on the char holding the cell: the count field moves by one and
\* wraps inside the char
N_INC(board, i, j, lda) ==
    [board EXCEPT ![BOARD(i, j, lda)] = (@ + 1) % CharRange]

N_DEC(board, i, j, lda) ==
    [board EXCEPT ![BOARD(i, j, lda)] = (@ + CharRange - 1) % CharRange]

\* the 8 toroidal neighbours of (i, j), in the order the code visits them
Neighbours(i, j, size) ==
    LET jwest  == mod(j - 1, size)
        jeast  == mod(j + 1, size)
        inorth == mod(i - 1, size)
        isouth == mod(i + 1, size)
    IN  << <<inorth, jwest>>, <<inorth, j>>, <<inorth, jeast>>,
           <<i, jwest>>, <<i, jeast>>,
           <<isouth, jwest>>, <<isouth, j>>, <<isouth, jeast>> >>

RECURSIVE IncAll(_, _, _, _)
IncAll(board, nbrs, k, lda) ==
    IF k > Len(nbrs) THEN board
    ELSE IncAll(N_INC(board, nbrs[k][1], nbrs[k][2], lda), nbrs, k + 1, lda)

RECURSIVE DecAll(_, _, _, _)
DecAll(board, nbrs, k, lda) ==
    IF k > Len(nbrs) THEN board
    ELSE DecAll(N_DEC(board, nbrs[k][1], nbrs[k][2], lda), nbrs, k + 1, lda)

(***************************************************************************)
(* Per-cell transitions.                                                   *)
(***************************************************************************)
kill_cell(outboard, i, j, size, lda) ==
    DecAll([outboard EXCEPT ![BOARD(i, j, lda)] = KILL(@)],
           Neighbours(i, j, size), 1, lda)

spawn_cell(outboard, i, j, size, lda) ==
    IncAll([outboard EXCEPT ![BOARD(i, j, lda)] = SPAWN(@)],
           Neighbours(i, j, size), 1, lda)

do_cell(outboard, inboard, i, j, size, lda) ==
    LET cell == inboard[BOARD(i, j, lda)]
    IN  IF ALIVE(cell) = 1
        THEN IF TOKILL(cell)
             THEN DecAll([outboard EXCEPT ![BOARD(i, j, lda)] = KILL(@)],
                         Neighbours(i, j, size), 1, lda)
             ELSE outboard
        ELSE IF TOSPAWN(cell)
             THEN IncAll([outboard EXCEPT ![BOARD(i, j, lda)] = SPAWN(@)],
                         Neighbours(i, j, size), 1, lda)
             ELSE outboard

(***************************************************************************)
(* Board codec.                                                            *)
(***************************************************************************)
\* first loop of preprocessing_board: a plain 1 becomes "alive, count 0"
MarkAlive(board) ==
    [k \in DOMAIN board |-> IF board[k] = 1 THEN SPAWN(0) ELSE board[k]]

\* second loop: every alive cell (i, j) applies N_INC to its 8 neighbours.
\* Hits(board, k, ...) is the number of N_INC the cell at address k receives.
\* The loop works in place, but an N_INC moves the count field only (a cell
\* receives at most 8 of them), so the ALIVE tests see the flags of `board`.
Hits(board, alive, k, size, lda) ==
    Cardinality({ p \in alive \X (1 .. 8) :
        LET nb == Neighbours(p[1][1], p[1][2], size)[p[2]]
        IN  BOARD(nb[1], nb[2], lda) = k })

CountLoop(board, alive, size, lda) ==
    [k \in DOMAIN board |->
        (board[k] + Hits(board, alive, k, size, lda)) % CharRange]

\* the cells of an encoded board whose alive flag is set
AliveCells(board, size, lda) ==
    { c \in (0 .. (size - 1)) \X (0 .. (size - 1)) :
        ALIVE(board[BOARD(c[1], c[2], lda)]) = 1 }

\* the encoded board preprocessing_board leaves in inboard and in outboard
preprocessing_board(inboard, size, lda) ==
    CountLoop(MarkAlive(inboard),
              AliveCells(MarkAlive(inboard), size, lda), size, lda)

\* variant of postprocessing_board: any non-zero encoded cell decodes to 1
postprocessing_nonzero(board, nr, nc) ==
    [k \in DOMAIN board |->
        IF k < nr * nc THEN (IF board[k] # 0 THEN 1 ELSE 0) ELSE board[k]]

postprocessing_board(board, nr, nc) ==
    [k \in DOMAIN board |-> IF k < nr * nc THEN ALIVE(board[k]) ELSE board[k]]

(***************************************************************************)
(* Dispatcher.                                                             *)
(***************************************************************************)
\* variant of game_of_life: the sequential limit taken inclusively
game_of_life_inclusive(nr, nc) ==
    IF nr <= SeqLimit THEN "sequential"
    ELSE IF (nr > SizeLimit) \/ (nc > SizeLimit) THEN "null"
    ELSE "parallel"

game_of_life(nr, nc) ==
    IF nr < SeqLimit THEN "sequential"
    ELSE IF (nr > SizeLimit) \/ (nc > SizeLimit) THEN "null"
    ELSE "parallel"

(***************************************************************************)
(* State.                                                                  *)
(***************************************************************************)
VARIABLES
    nrows, ncols, gens_max,  \* arguments of the call
    NUM_THREADS,             \* the build's thread count
    LDA,                     \* global leading dimension (set at life.c:208)
    plain,                   \* the caller's plain board, kept for reference
    origin,                  \* how plain was built: [base, dr, dc]
    inboard, outboard,       \* the two buffers ("current" and "next")
    mainpc,                  \* position of the calling thread
    tid,                     \* loop index of the create / join loops
    outcome,                 \* what game_of_life returned
    pc,                      \* position of each worker
    curgen,                  \* generation counter of each worker
    col_j, row_i,            \* loop indices j and i of each worker
    seg,                     \* which of the three i-loops a worker is in
    todo,                    \* transition a worker decided on for its cell
    snap,                    \* cells of outboard a worker has read and not
                             \* yet written back
    boundary_locks,          \* owner of each boundary mutex, or NoOwner
    bar_count,               \* threads waiting at the barrier
    arrivals,                \* barrier arrivals of each worker so far
    failures                 \* primitive failures reported so far

vars == << nrows, ncols, gens_max, NUM_THREADS, LDA, plain, origin, inboard,
           outboard, mainpc, tid, outcome, pc, curgen, col_j, row_i, seg,
           todo, snap, boundary_locks, bar_count, arrivals, failures >>

callvars == << nrows, ncols, gens_max, NUM_THREADS, plain, origin >>

NoOwner == -1
NoSnap == [k \in {} |-> 0]

Workers == 0 .. (NUM_THREADS - 1)
Cells(n) == 0 .. (n * n - 1)

(***************************************************************************)
(* Inputs: boards are toroidal shifts of a few small patterns.             *)
(***************************************************************************)
Empty == {}
Single == { <<0, 0>> }
Blinker == { <<0, 0>>, <<0, 1>>, <<0, 2>> }
Corner == { <<0, 0>>, <<0, 1>>, <<1, 0>> }
Glider == { <<0, 1>>, <<1, 2>>, <<2, 0>>, <<2, 1>>, <<2, 2>> }
Patterns == { Empty, Single, Blinker, Corner, Glider }

\* the plain board of side n holding the live cells `live`
BoardOf(live, n) ==
    [k \in Cells(n) |-> IF << k \div n, k % n >> \in live THEN 1 ELSE 0]

\* the board moved by dr rows and dc columns on the torus
Shift(board, n, dr, dc) ==
    [k \in Cells(n) |->
        board[BOARD(mod((k \div n) - dr, n), mod((k % n) - dc, n), n)]]

\* board sides and thread counts: the thread count divides the row count.
\* Slices of at least 3 rows are explored: 3-row slices have overlapping
\* margins, slices of 4 rows and more have disjoint ones.
Configs ==
    { c \in (3 .. MaxSize) \X (1 .. MaxThreads) :
        /\ c[1] % c[2] = 0
        /\ c[1] \div c[2] >= 3 }

\* generation counts: when two or more workers have slices of fewer than 4
\* rows their unsynchronised margins multiply the outcomes, and one
\* generation is explored
GensOf(c) ==
    IF c[2] > 1 /\ c[1] \div c[2] < 4 THEN 0 .. 1 ELSE 0 .. MaxGens

RowShifts(n) == 0 .. (n - 1)
\* every pattern is moved one column west, across the column edge
ColShifts(n) == {n - 1}

(***************************************************************************)
(* Slices (life.c:94-98).                                                  *)
(***************************************************************************)
slice_size == nrows \div NUM_THREADS
start(w) == w * slice_size
end(w) == start(w) + slice_size
boundary_locks_upper(w) == w
boundary_locks_lower(w) == (w + 1) % NUM_THREADS
LockOf(w) == IF seg[w] = "upper" THEN boundary_locks_upper(w)
             ELSE boundary_locks_lower(w)

\* variant of Decide: the TOSPAWN test of a dead cell negated
DecideNegated(cell) ==
    IF ALIVE(cell) = 1
    THEN IF TOKILL(cell) THEN "kill" ELSE "none"
    ELSE IF ~TOSPAWN(cell) THEN "spawn" ELSE "none"

\* the test the worker makes on a cell of inboard (life.c:110-124, 139-153)
Decide(cell) ==
    IF ALIVE(cell) = 1
    THEN IF TOKILL(cell) THEN "kill" ELSE "none"
    ELSE IF TOSPAWN(cell) THEN "spawn" ELSE "none"

\* where the three i-loops and the j-loop go after cell (i, j)
NextPos(sg, i, j, st, en, nc) ==
    IF sg = "upper"
    THEN IF i + 1 < st + 2
         THEN [pc |-> "check", seg |-> "upper", i |-> i + 1, j |-> j]
         ELSE IF st + 2 < en - 2
              THEN [pc |-> "check", seg |-> "body", i |-> st + 2, j |-> j]
              ELSE [pc |-> "check", seg |-> "lower", i |-> en - 2, j |-> j]
    ELSE IF sg = "body"
    THEN IF i + 1 < en - 2
         THEN [pc |-> "check", seg |-> "body", i |-> i + 1, j |-> j]
         ELSE [pc |-> "check", seg |-> "lower", i |-> en - 2, j |-> j]
    ELSE IF i + 1 < en
         THEN [pc |-> "check", seg |-> "lower", i |-> i + 1, j |-> j]
         ELSE IF j + 1 < nc
              THEN [pc |-> "check", seg |-> "upper", i |-> st, j |-> j + 1]
              ELSE [pc |-> "barrier1", seg |-> "upper", i |-> st, j |-> 0]

\* the cells a worker tests in one generation, numbered 1, 2, ... in the
\* order of the loops: per column the two upper-margin rows, the body rows
\* start+2 .. end-3 and the two lower-margin rows
BodyLen == IF slice_size > 4 THEN slice_size - 4 ELSE 0
RowsPerCol == 4 + BodyLen
ColAt(q) == (q - 1) \div RowsPerCol
RankAt(q) == ((q - 1) % RowsPerCol) + 1
SegAt(q) ==
    IF RankAt(q) <= 2 THEN "upper"
    ELSE IF RankAt(q) <= 2 + BodyLen THEN "body" ELSE "lower"
RowAt(w, q) ==
    IF RankAt(q) <= 2 + BodyLen THEN start(w) + RankAt(q) - 1
    ELSE end(w) - 2 + (RankAt(q) - 3 - BodyLen)
CellAt(w, q) == BOARD(RowAt(w, q), ColAt(q), LDA)

\* the number of the cell worker w is at
Index(w) ==
    col_j[w] * RowsPerCol +
    (IF seg[w] = "lower" THEN row_i[w] - (end(w) - 2) + 3 + BodyLen
     ELSE row_i[w] - start(w) + 1)

\* the worker's position at the top of the generation loop
GenStart(w, g) ==
    IF g < gens_max
    THEN [pc |-> "check", seg |-> "upper", i |-> start(w), j |-> 0]
    ELSE [pc |-> "done", seg |-> "upper", i |-> start(w), j |-> 0]

\* worker w moves to position p
Goto(w, p) ==
    /\ pc' = [pc EXCEPT ![w] = p.pc]
    /\ seg' = [seg EXCEPT ![w] = p.seg]
    /\ row_i' = [row_i EXCEPT ![w] = p.i]
    /\ col_j' = [col_j EXCEPT ![w] = p.j]

Advance(w) ==
    Goto(w, NextPos(seg[w], row_i[w], col_j[w], start(w), end(w), ncols))

(***************************************************************************)
(* Initial states: the call parallel_game_of_life(outboard, inboard, n, n, *)
(* gens_max) on a plain board; outboard is overwritten before it is read.  *)
(***************************************************************************)
Init ==
    \E c \in Configs, p \in Patterns :
    \E g \in GensOf(c) :
    \E dr \in RowShifts(c[1]), dc \in ColShifts(c[1]) :
        /\ nrows = c[1]
        /\ ncols = c[1]
        /\ NUM_THREADS = c[2]
        /\ gens_max = g
        /\ LDA = 0
        /\ origin = [base |-> BoardOf(p, c[1]), dr |-> dr, dc |-> dc]
        /\ plain = Shift(BoardOf(p, c[1]), c[1], dr, dc)
        /\ inboard = Shift(BoardOf(p, c[1]), c[1], dr, dc)
        /\ outboard = [k \in Cells(c[1]) |-> 0]
        /\ mainpc = "entry"
        /\ tid = 0
        /\ outcome = "none"
        /\ pc = [w \in 0 .. (c[2] - 1) |-> "idle"]
        /\ curgen = [w \in 0 .. (c[2] - 1) |-> 0]
        /\ col_j = [w \in 0 .. (c[2] - 1) |-> 0]
        /\ row_i = [w \in 0 .. (c[2] - 1) |-> 0]
        /\ seg = [w \in 0 .. (c[2] - 1) |-> "upper"]
        /\ todo = [w \in 0 .. (c[2] - 1) |-> "none"]
        /\ snap = [w \in 0 .. (c[2] - 1) |-> NoSnap]
        /\ boundary_locks = [k \in 0 .. (c[2] - 1) |-> NoOwner]
        /\ bar_count = 0
        /\ arrivals = [w \in 0 .. (c[2] - 1) |-> 0]
        /\ failures = 0

(***************************************************************************)
(* parallel_game_of_life: the calling thread.                              *)
(***************************************************************************)
\* variant of Preprocess: inboard is left as the caller gave it and the
\* encoding is built in outboard only
PreprocessOutboardOnly ==
    /\ mainpc = "entry"
    /\ LDA' = nrows
    /\ outboard' = preprocessing_board(inboard, nrows, nrows)
    /\ boundary_locks' = [k \in Workers |-> NoOwner]
    /\ bar_count' = 0
    /\ mainpc' = "create"
    /\ tid' = 0
    /\ UNCHANGED << callvars, inboard, outcome, pc, curgen, col_j, row_i, seg,
                    todo, snap, arrivals, failures >>

\* life.c:199-210: mutexes and barrier initialised, LDA set, board encoded
\* in inboard and duplicated into outboard
Preprocess ==
    /\ mainpc = "entry"
    /\ LDA' = nrows
    /\ inboard' = preprocessing_board(inboard, nrows, nrows)
    /\ outboard' = inboard'
    /\ boundary_locks' = [k \in Workers |-> NoOwner]
    /\ bar_count' = 0
    /\ mainpc' = "create"
    /\ tid' = 0
    /\ UNCHANGED << callvars, outcome, pc, curgen, col_j, row_i, seg, todo,
                    snap, arrivals, failures >>

\* life.c:214-224: one pthread_create per iteration
Create ==
    /\ mainpc = "create"
    /\ tid < NUM_THREADS
    /\ Goto(tid, GenStart(tid, 0))
    /\ tid' = tid + 1
    /\ UNCHANGED << callvars, LDA, inboard, outboard, mainpc, outcome,
                    curgen, todo, snap, boundary_locks, bar_count, arrivals,
                    failures >>

CreateDone ==
    /\ mainpc = "create"
    /\ tid = NUM_THREADS
    /\ mainpc' = "join"
    /\ tid' = 0
    /\ UNCHANGED << callvars, LDA, inboard, outboard, outcome, pc, curgen,
                    col_j, row_i, seg, todo, snap, boundary_locks, bar_count,
                    arrivals, failures >>

\* life.c:226-228: pthread_join returns once the worker has returned
Join ==
    /\ mainpc = "join"
    /\ tid < NUM_THREADS
    /\ pc[tid] = "done"
    /\ tid' = tid + 1
    /\ UNCHANGED << callvars, LDA, inboard, outboard, mainpc, outcome, pc,
                    curgen, col_j, row_i, seg, todo, snap, boundary_locks,
                    bar_count, arrivals, failures >>

\* life.c:231-233: decode outboard and return it
Postprocess ==
    /\ mainpc = "join"
    /\ tid = NUM_THREADS
    /\ outboard' = postprocessing_board(outboard, LDA, LDA)
    /\ mainpc' = "returned"
    /\ outcome' = "outboard"
    /\ UNCHANGED << callvars, LDA, inboard, tid, pc, curgen, col_j, row_i,
                    seg, todo, snap, boundary_locks, bar_count, arrivals,
                    failures >>

(***************************************************************************)
(* worker_fuction_by_rows_encoding: one worker thread.                     *)
(***************************************************************************)
\* the tests on BOARD(inboard, i, j) that open the iterations of the three
\* i-loops: the worker walks on from (i, j), reading inboard only, to the
\* first cell that has to die or to be born, or to the end of the j-loop
Check(w) ==
    /\ pc[w] = "check"
    /\ LET hits == { q \in Index(w) .. (ncols * RowsPerCol) :
                       Decide(inboard[CellAt(w, q)]) # "none" }
       IN  IF hits = {}
           THEN /\ Goto(w, [pc |-> "barrier1", seg |-> "upper",
                            i |-> start(w), j |-> 0])
                /\ UNCHANGED todo
           ELSE LET q == CHOOSE x \in hits : \A y \in hits : x <= y
                IN  /\ Goto(w, [pc |-> IF SegAt(q) = "body" THEN "read"
                                       ELSE "lock",
                                seg |-> SegAt(q), i |-> RowAt(w, q),
                                j |-> ColAt(q)])
                    /\ todo' = [todo EXCEPT ![w] = Decide(inboard[CellAt(w, q)])]
    /\ UNCHANGED << callvars, LDA, inboard, outboard, mainpc, tid, outcome,
                    curgen, snap, boundary_locks, bar_count, arrivals,
                    failures >>

\* variant of Lock: the mutex is taken whether it is free or not
LockUnguarded(w) ==
    /\ pc[w] = "lock"
    /\ boundary_locks' = [boundary_locks EXCEPT ![LockOf(w)] = w]
    /\ pc' = [pc EXCEPT ![w] = "read"]
    /\ UNCHANGED << callvars, LDA, inboard, outboard, mainpc, tid, outcome,
                    curgen, col_j, row_i, seg, todo, snap, bar_count,
                    arrivals, failures >>

\* pthread_mutex_lock on the margin's boundary mutex
Lock(w) ==
    /\ pc[w] = "lock"
    /\ boundary_locks[LockOf(w)] = NoOwner
    /\ boundary_locks' = [boundary_locks EXCEPT ![LockOf(w)] = w]
    /\ pc' = [pc EXCEPT ![w] = "read"]
    /\ UNCHANGED << callvars, LDA, inboard, outboard, mainpc, tid, outcome,
                    curgen, col_j, row_i, seg, todo, snap, bar_count,
                    arrivals, failures >>

\* the cells of outboard a transition of (i, j) reads and writes
Region(i, j) ==
    { BOARD(i, j, LDA) } \cup
    { BOARD(Neighbours(i, j, nrows)[k][1], Neighbours(i, j, nrows)[k][2], LDA) :
        k \in 1 .. 8 }

\* KILL / SPAWN / N_INC / N_DEC are read-modify-write accesses of plain
\* chars: the worker first loads the cells ...
Read(w) ==
    /\ pc[w] = "read"
    /\ snap' = [snap EXCEPT ![w] =
                  [k \in Region(row_i[w], col_j[w]) |-> outboard[k]]]
    /\ pc' = [pc EXCEPT ![w] = "write"]
    /\ UNCHANGED << callvars, LDA, inboard, outboard, mainpc, tid, outcome,
                    curgen, col_j, row_i, seg, todo, boundary_locks,
                    bar_count, arrivals, failures >>

\* what worker w holds of outboard: the loaded cells over the buffer
View(w) ==
    [k \in DOMAIN outboard |->
        IF k \in DOMAIN snap[w] THEN snap[w][k] ELSE outboard[k]]

\* the transition applied to the loaded cells
Transition(w) ==
    IF seg[w] = "body"
    THEN do_cell(View(w), inboard, row_i[w], col_j[w], nrows, LDA)
    ELSE IF todo[w] = "kill"
         THEN kill_cell(View(w), row_i[w], col_j[w], nrows, LDA)
         ELSE spawn_cell(View(w), row_i[w], col_j[w], nrows, LDA)

\* variant of Write: the transition is stored into inboard
WriteInboard(w) ==
    /\ pc[w] = "write"
    /\ inboard' = [k \in DOMAIN inboard |->
                     IF k \in DOMAIN snap[w] THEN Transition(w)[k]
                     ELSE inboard[k]]
    /\ snap' = [snap EXCEPT ![w] = NoSnap]
    /\ todo' = [todo EXCEPT ![w] = "none"]
    /\ IF seg[w] = "body"
       THEN Advance(w)
       ELSE /\ pc' = [pc EXCEPT ![w] = "unlock"]
            /\ UNCHANGED << seg, row_i, col_j >>
    /\ UNCHANGED << callvars, LDA, outboard, mainpc, tid, outcome, curgen,
                    boundary_locks, bar_count, arrivals, failures >>

\* ... and then stores them
Write(w) ==
    /\ pc[w] = "write"
    /\ outboard' = [k \in DOMAIN outboard |->
                      IF k \in DOMAIN snap[w] THEN Transition(w)[k]
                      ELSE outboard[k]]
    /\ snap' = [snap EXCEPT ![w] = NoSnap]
    /\ todo' = [todo EXCEPT ![w] = "none"]
    /\ IF seg[w] = "body"
       THEN Advance(w)
       ELSE /\ pc' = [pc EXCEPT ![w] = "unlock"]
            /\ UNCHANGED << seg, row_i, col_j >>
    /\ UNCHANGED << callvars, LDA, inboard, mainpc, tid, outcome, curgen,
                    boundary_locks, bar_count, arrivals, failures >>

\* variant of Unlock: the margin is left without releasing its mutex
UnlockSkipped(w) ==
    /\ pc[w] = "unlock"
    /\ Advance(w)
    /\ UNCHANGED << callvars, LDA, inboard, outboard, mainpc, tid, outcome,
                    curgen, todo, snap, boundary_locks, bar_count, arrivals,
                    failures >>

\* pthread_mutex_unlock by the owner
Unlock(w) ==
    /\ pc[w] = "unlock"
    /\ boundary_locks[LockOf(w)] = w
    /\ boundary_locks' = [boundary_locks EXCEPT ![LockOf(w)] = NoOwner]
    /\ Advance(w)
    /\ UNCHANGED << callvars, LDA, inboard, outboard, mainpc, tid, outcome,
                    curgen, todo, snap, bar_count, arrivals, failures >>

\* where a worker goes when the barrier lets it through
AfterBarrier(v, at) ==
    IF at \in {"barrier1", "wait1"}
    THEN [pc |-> "copy", seg |-> seg[v], i |-> row_i[v], j |-> col_j[v],
          gen |-> curgen[v]]
    ELSE [pc |-> GenStart(v, curgen[v] + 1).pc, seg |-> "upper",
          i |-> start(v), j |-> 0, gen |-> curgen[v] + 1]

\* variant of BarrierWait: the caller passes without waiting for the others
BarrierNoWait(w) ==
    /\ pc[w] \in {"barrier1", "barrier2"}
    /\ arrivals' = [arrivals EXCEPT ![w] = @ + 1]
    /\ Goto(w, AfterBarrier(w, pc[w]))
    /\ curgen' = [curgen EXCEPT ![w] = AfterBarrier(w, pc[w]).gen]
    /\ UNCHANGED << callvars, LDA, inboard, outboard, mainpc, tid, outcome,
                    todo, snap, boundary_locks, bar_count, failures >>

\* pthread_barrier_wait: the NUM_THREADS-th arrival releases every waiter
BarrierWait(w) ==
    /\ pc[w] \in {"barrier1", "barrier2"}
    /\ arrivals' = [arrivals EXCEPT ![w] = @ + 1]
    /\ IF bar_count + 1 = NUM_THREADS
       THEN LET out == { v \in Workers : v = w \/ pc[v] \in {"wait1", "wait2"} }
                to(v) == AfterBarrier(v, pc[v])
            IN  /\ bar_count' = 0
                /\ pc' = [v \in Workers |-> IF v \in out THEN to(v).pc ELSE pc[v]]
                /\ seg' = [v \in Workers |-> IF v \in out THEN to(v).seg ELSE seg[v]]
                /\ row_i' = [v \in Workers |-> IF v \in out THEN to(v).i ELSE row_i[v]]
                /\ col_j' = [v \in Workers |-> IF v \in out THEN to(v).j ELSE col_j[v]]
                /\ curgen' = [v \in Workers |-> IF v \in out THEN to(v).gen ELSE curgen[v]]
       ELSE /\ bar_count' = bar_count + 1
            /\ pc' = [pc EXCEPT ![w] = IF pc[w] = "barrier1" THEN "wait1" ELSE "wait2"]
            /\ UNCHANGED << seg, row_i, col_j, curgen >>
    /\ UNCHANGED << callvars, LDA, inboard, outboard, mainpc, tid, outcome,
                    todo, snap, boundary_locks, failures >>

\* variant of Copy: the worker starts its next generation right after its
\* memcpy, without the second rendezvous
CopySkipsBarrier(w) ==
    /\ pc[w] = "copy"
    /\ inboard' = [k \in DOMAIN inboard |->
                     IF /\ k >= start(w) * ncols
                        /\ k < start(w) * ncols + slice_size * ncols
                     THEN outboard[k] ELSE inboard[k]]
    /\ Goto(w, GenStart(w, curgen[w] + 1))
    /\ curgen' = [curgen EXCEPT ![w] = @ + 1]
    /\ UNCHANGED << callvars, LDA, outboard, mainpc, tid, outcome, todo, snap,
                    boundary_locks, bar_count, arrivals, failures >>

\* variant of Copy: the memcpy stops one row short of the end of the slice
CopyShort(w) ==
    /\ pc[w] = "copy"
    /\ inboard' = [k \in DOMAIN inboard |->
                     IF /\ k >= start(w) * ncols
                        /\ k < start(w) * ncols + (slice_size - 1) * ncols
                     THEN outboard[k] ELSE inboard[k]]
    /\ pc' = [pc EXCEPT ![w] = "barrier2"]
    /\ UNCHANGED << callvars, LDA, outboard, mainpc, tid, outcome, curgen,
                    col_j, row_i, seg, todo, snap, boundary_locks, bar_count,
                    arrivals, failures >>

\* life.c:160: memcpy of the worker's own row band from outboard to inboard
Copy(w) ==
    /\ pc[w] = "copy"
    /\ inboard' = [k \in DOMAIN inboard |->
                     IF /\ k >= start(w) * ncols
                        /\ k < start(w) * ncols + slice_size * ncols
                     THEN outboard[k] ELSE inboard[k]]
    /\ pc' = [pc EXCEPT ![w] = "barrier2"]
    /\ UNCHANGED << callvars, LDA, outboard, mainpc, tid, outcome, curgen,
                    col_j, row_i, seg, todo, snap, boundary_locks, bar_count,
                    arrivals, failures >>

WorkerStep(w) ==
    \/ Check(w)
    \/ Lock(w)
    \/ Read(w)
    \/ Write(w)
    \/ Unlock(w)
    \/ BarrierWait(w)
    \/ Copy(w)

MainStep ==
    \/ Preprocess
    \/ Create
    \/ CreateDone
    \/ Join
    \/ Postprocess

Next ==
    \/ MainStep
    \/ \E w \in Workers : WorkerStep(w)

Spec == Init /\ [][Next]_vars

(***************************************************************************)
(* Reference: the naive rule, recounting the 8 neighbours of every cell.   *)
(***************************************************************************)
LiveNeighbours(board, i, j, n) ==
    Cardinality({ k \in 1 .. 8 :
        board[BOARD(Neighbours(i, j, n)[k][1], Neighbours(i, j, n)[k][2], n)] = 1 })

NaiveStep(board, n) ==
    [k \in Cells(n) |->
        LET c == LiveNeighbours(board, k \div n, k % n, n)
        IN  IF board[k] = 1
            THEN (IF c \in {2, 3} THEN 1 ELSE 0)
            ELSE (IF c = 3 THEN 1 ELSE 0)]

RECURSIVE NaiveGens(_, _, _)
NaiveGens(board, n, g) ==
    IF g = 0 THEN board ELSE NaiveGens(NaiveStep(board, n), n, g - 1)


(***************************************************************************)
(* Reference: the engine with its workers run one after the other.  The    *)
(* slices, the order of the cells and the transitions are those of         *)
(* worker_fuction_by_rows_encoding for n rows and columns and t threads.   *)
(***************************************************************************)
\* the rows the three i-loops of worker w visit in one column, in order
SliceRows(n, t, w) ==
    LET sz == n \div t
        st == w * sz
        en == st + sz
    IN  << st, st + 1 >> \o [r \in 1 .. (IF sz > 4 THEN sz - 4 ELSE 0) |-> st + 1 + r]
        \o << en - 2, en - 1 >>

\* the cells worker w tests in one generation, in order
Visits(n, t, w) ==
    LET rows == SliceRows(n, t, w)
    IN  [q \in 1 .. (n * Len(rows)) |->
            << rows[((q - 1) % Len(rows)) + 1], (q - 1) \div Len(rows) >>]

RECURSIVE ApplyVisits(_, _, _, _, _)
ApplyVisits(out, inb, cells, k, n) ==
    IF k > Len(cells) THEN out
    ELSE ApplyVisits(do_cell(out, inb, cells[k][1], cells[k][2], n, n),
                     inb, cells, k + 1, n)

\* outboard after worker w has walked its slice, starting from `out`
WorkerPass(out, inb, n, t, w) ==
    LET needs(c) == Decide(inb[BOARD(c[1], c[2], n)]) # "none"
    IN  ApplyVisits(out, inb, SelectSeq(Visits(n, t, w), needs), 1, n)

RECURSIVE WorkersPass(_, _, _, _, _)
WorkersPass(out, inb, n, t, w) ==
    IF w >= t THEN out
    ELSE WorkersPass(WorkerPass(out, inb, n, t, w), inb, n, t, w + 1)

\* the encoded board after g generations; both buffers are equal between
\* generations, the copies of the slices making inboard a copy of outboard
RECURSIVE SeqGens(_, _, _, _)
SeqGens(board, n, t, g) ==
    IF g = 0 THEN board
    ELSE SeqGens(WorkersPass(board, board, n, t, 0), n, t, g - 1)

\* the plain board the engine returns when its workers run in turn
SeqEngine(board, n, t, g) ==
    postprocessing_board(SeqGens(preprocessing_board(board, n, n), n, t, g), n, n)

(***************************************************************************)
(* game_of_life: the dispatcher alone.  The call is made with row and      *)
(* column counts around the two limits and the outcome is recorded; the    *)
(* sequential implementation is external.                                  *)
(***************************************************************************)
Dims ==
    (1 .. MaxSize) \cup
    { SeqLimit - 1, SeqLimit, SeqLimit + 1,
      SizeLimit - 1, SizeLimit, SizeLimit + 1, 2 * SizeLimit }

DispatchInit ==
    \E nr \in Dims, nc \in Dims, g \in 0 .. MaxGens :
        /\ nrows = nr
        /\ ncols = nc
        /\ gens_max = g
        /\ NUM_THREADS = 1
        /\ LDA = 0
        /\ origin = [base |-> << >>, dr |-> 0, dc |-> 0]
        /\ plain = << >>
        /\ inboard = << >>
        /\ outboard = << >>
        /\ mainpc = "call"
        /\ tid = 0
        /\ outcome = "none"
        /\ pc = [w \in {0} |-> "idle"]
        /\ curgen = [w \in {0} |-> 0]
        /\ col_j = [w \in {0} |-> 0]
        /\ row_i = [w \in {0} |-> 0]
        /\ seg = [w \in {0} |-> "upper"]
        /\ todo = [w \in {0} |-> "none"]
        /\ snap = [w \in {0} |-> NoSnap]
        /\ boundary_locks = [k \in {0} |-> NoOwner]
        /\ bar_count = 0
        /\ arrivals = [w \in {0} |-> 0]
        /\ failures = 0

\* life.c:177-187: the three branches of game_of_life
Dispatch ==
    /\ mainpc = "call"
    /\ outcome' = game_of_life(nrows, ncols)
    /\ mainpc' = "dispatched"
    /\ UNCHANGED << callvars, LDA, inboard, outboard, tid, pc, curgen, col_j,
                    row_i, seg, todo, snap, boundary_locks, bar_count,
                    arrivals, failures >>

DispatchNext == Dispatch

DispatchSpec == DispatchInit /\ [][DispatchNext]_vars

(***************************************************************************)
(* Runs in which a pthread primitive reports a failure.  The code tests no *)
(* return value (life.c:112-162, 203-227), so the caller of the failed     *)
(* primitive carries on.                                                   *)
(***************************************************************************)
\* pthread_mutex_lock returns an error: the mutex is not acquired
LockFail(w) ==
    /\ pc[w] = "lock"
    /\ failures < MaxFailures
    /\ failures' = failures + 1
    /\ pc' = [pc EXCEPT ![w] = "read"]
    /\ UNCHANGED << callvars, LDA, inboard, outboard, mainpc, tid, outcome,
                    curgen, col_j, row_i, seg, todo, snap, boundary_locks,
                    bar_count, arrivals >>

\* pthread_mutex_unlock of a mutex the caller does not own: undefined for a
\* default mutex; the call either leaves the mutex alone or unlocks it
UnlockNotOwner(w) ==
    /\ pc[w] = "unlock"
    /\ boundary_locks[LockOf(w)] # w
    /\ \E o \in {boundary_locks[LockOf(w)], NoOwner} :
           boundary_locks' = [boundary_locks EXCEPT ![LockOf(w)] = o]
    /\ Advance(w)
    /\ UNCHANGED << callvars, LDA, inboard, outboard, mainpc, tid, outcome,
                    curgen, todo, snap, bar_count, arrivals, failures >>

\* pthread_barrier_wait returns an error at once: the caller does not wait
BarrierFail(w) ==
    /\ pc[w] \in {"barrier1", "barrier2"}
    /\ failures < MaxFailures
    /\ failures' = failures + 1
    /\ arrivals' = [arrivals EXCEPT ![w] = @ + 1]
    /\ Goto(w, AfterBarrier(w, pc[w]))
    /\ curgen' = [curgen EXCEPT ![w] = AfterBarrier(w, pc[w]).gen]
    /\ UNCHANGED << callvars, LDA, inboard, outboard, mainpc, tid, outcome,
                    todo, snap, boundary_locks, bar_count >>

\* two workers with disjoint margins, at most one generation
FailInit ==
    /\ Init
    /\ NUM_THREADS > 1
    /\ nrows \div NUM_THREADS >= 4
    /\ gens_max <= 1

FailNext ==
    \/ Next
    \/ \E w \in Workers : LockFail(w)
    \/ \E w \in Workers : UnlockNotOwner(w)
    \/ \E w \in Workers : BarrierFail(w)

FailSpec == FailInit /\ [][FailNext]_vars

(***************************************************************************)
(* The loops of one worker alone, for row counts the dispatcher hands to    *)
(* the parallel engine: worker tid walks the cells of one generation in the *)
(* order of the j-loop and the three i-loops, without boards.  Thread       *)
(* counts divide the row count and leave at least 2 rows per slice, so      *)
(* that the margin loops stay inside the board.                             *)
(***************************************************************************)
SliceDims == { SeqLimit, SeqLimit + 4 }

\* the rows each of the three i-loops of worker w visits in a column
LoopRows(w, sg) ==
    IF sg = "upper" THEN start(w) .. (start(w) + 1)
    ELSE IF sg = "body" THEN (start(w) + 2) .. (end(w) - 3)
    ELSE (end(w) - 2) .. (end(w) - 1)

SliceInit ==
    \E n \in SliceDims :
    \E t \in 1 .. n :
    \E me \in 0 .. (t - 1) :
        /\ n % t = 0
        /\ n \div t >= 2
        /\ nrows = n
        /\ ncols = n
        /\ gens_max = 1
        /\ NUM_THREADS = t
        /\ LDA = n
        /\ origin = [base |-> << >>, dr |-> 0, dc |-> 0]
        /\ plain = << >>
        /\ inboard = << >>
        /\ outboard = << >>
        /\ mainpc = "walk"
        /\ tid = me
        /\ outcome = "none"
        /\ pc = [w \in 0 .. (t - 1) |-> IF w = me THEN "check" ELSE "idle"]
        /\ curgen = [w \in 0 .. (t - 1) |-> 0]
        /\ col_j = [w \in 0 .. (t - 1) |-> 0]
        /\ row_i = [w \in 0 .. (t - 1) |-> w * (n \div t)]
        /\ seg = [w \in 0 .. (t - 1) |-> "upper"]
        /\ todo = [w \in 0 .. (t - 1) |-> "none"]
        /\ snap = [w \in 0 .. (t - 1) |-> NoSnap]
        /\ boundary_locks = [k \in 0 .. (t - 1) |-> NoOwner]
        /\ bar_count = 0
        /\ arrivals = [w \in 0 .. (t - 1) |-> 0]
        /\ failures = 0

\* one iteration of an i-loop: on to the next cell of the walk
SliceWalk ==
    /\ mainpc = "walk"
    /\ pc[tid] = "check"
    /\ Advance(tid)
    /\ UNCHANGED << callvars, LDA, inboard, outboard, mainpc, tid, outcome,
                    curgen, todo, snap, boundary_locks, bar_count, arrivals,
                    failures >>

SliceNext == SliceWalk

SliceSpec == SliceInit /\ [][SliceNext]_vars

(***************************************************************************)
(* Fair scheduling: while some thread (the caller or a worker) can take a  *)
(* step, some thread eventually takes one.  Every scheduler that lets each *)
(* runnable thread run eventually satisfies this.                          *)
(***************************************************************************)
Fairness == WF_vars(Next)

\* the boards every thread count up to MaxThreads may be tried on, with the
\* pattern across the bottom edge of the board, where the upper margin of
\* worker 0 and the lower margin of the last worker meet
FairInit ==
    /\ Init
    /\ nrows % MaxThreads = 0
    /\ origin.dr = nrows - 2

FairSpec == FairInit /\ [][Next]_vars /\ Fairness

(***************************************************************************)
(* Properties.                                                             *)
(***************************************************************************)
Returned == mainpc = "returned"

AllDead(board) == \A k \in DOMAIN board : board[k] = 0

\* the count field of every cell is the number of its 8 toroidal neighbours
\* whose alive flag is set
CountsExact(board, n) ==
    \A k \in Cells(n) :
        COUNT(board[k]) =
            Cardinality({ d \in 1 .. 8 :
                ALIVE(board[BOARD(Neighbours(k \div n, k % n, n)[d][1],
                                  Neighbours(k \div n, k % n, n)[d][2], n)]) = 1 })

\* the board is encoded and every created worker stands at the top of the
\* same generation (or has returned): nobody is inside a generation
AtBoundary ==
    /\ mainpc \in {"create", "join"}
    /\ \A w \in Workers :
        \/ pc[w] \in {"idle", "done"}
        \/ /\ pc[w] = "check"
           /\ seg[w] = "upper"
           /\ row_i[w] = start(w)
           /\ col_j[w] = 0
    /\ \A v, w \in Workers :
        (pc[v] # "idle" /\ pc[w] # "idle") => curgen[v] = curgen[w]

\* C1: the board parallel_game_of_life returns after gens_max generations
\* is the board the naive rule (recount the 8 toroidal neighbours of every
\* cell) gives when applied gens_max times to the input board.
Equivalence ==
    Returned => outboard = NaiveGens(plain, nrows, gens_max)

\* The same for the runs whose slices have at least 4 rows.
EquivalenceWideSlices ==
    (Returned /\ slice_size >= 4) => outboard = NaiveGens(plain, nrows, gens_max)

EquivalenceWideWitness ==
    /\ Returned
    /\ slice_size >= 4
    /\ NUM_THREADS > 1
    /\ gens_max > 1
    /\ outboard # plain

\* C2: the board returned is the one the engine returns for every thread
\* count that evenly divides the row count.
ThreadCountIndependent ==
    Returned =>
        \A t \in 1 .. MaxThreads :
            << nrows, t >> \in Configs =>
                outboard = SeqEngine(plain, nrows, t, gens_max)

\* C3: right after preprocessing_board and at every generation boundary the
\* neighbour count of every cell of inboard is the number of its alive
\* toroidal neighbours in inboard.
NeighbourCountInvariant ==
    AtBoundary => CountsExact(inboard, nrows)

\* C4: decoding the freshly encoded board gives the plain board back, and a
\* call with gens_max = 0 returns a buffer equal to the input board.
EncodingRoundTrip ==
    /\ (mainpc = "create" /\ tid = 0) =>
           postprocessing_board(inboard, nrows, ncols) = plain
    /\ (Returned /\ gens_max = 0) => outboard = plain

EncodingRoundTripWitness ==
    /\ Returned
    /\ gens_max = 0
    /\ outboard = plain
    /\ \E k \in DOMAIN plain : plain[k] = 1

\* C5: game_of_life returns a null result whenever nrows or ncols exceeds
\* the size limit, whatever the other arguments, and runs neither engine.
NullWhenOversized ==
    (mainpc = "dispatched" /\ (nrows > SizeLimit \/ ncols > SizeLimit))
        => outcome = "null"

\* C6: game_of_life runs the sequential implementation exactly when
\* nrows < 32 and the parallel engine exactly when 32 <= nrows <= 10000 and
\* ncols <= 10000; sequential, null and parallel exclude each other and
\* cover every call.
DispatchPolicy ==
    mainpc = "dispatched" =>
        /\ outcome \in {"sequential", "null", "parallel"}
        /\ (outcome = "sequential") <=> (nrows < SeqLimit)
        /\ (outcome = "parallel") <=>
               (SeqLimit <= nrows /\ nrows <= SizeLimit /\ ncols <= SizeLimit)

DispatchPolicyWitness ==
    /\ mainpc = "dispatched"
    /\ nrows = SeqLimit
    /\ ncols = SizeLimit
    /\ outcome = "parallel"

\* C7: once a mutex or barrier primitive has reported a failure no buffer
\* is written any more and parallel_game_of_life does not return a board.
FailureIsFatal ==
    [][failures > 0 =>
          /\ outboard' = outboard
          /\ inboard' = inboard
          /\ mainpc' # "returned"]_vars

\* C8: under fair scheduling every run ends: all workers reach their
\* terminal state after exactly gens_max generations and 2 * gens_max
\* arrivals at the barrier, no mutex is left held, and
\* parallel_game_of_life has joined them and returned.
Termination ==
    <>(/\ Returned
       /\ \A w \in Workers :
            /\ pc[w] = "done"
            /\ curgen[w] = gens_max
            /\ arrivals[w] = 2 * gens_max
       /\ \A k \in Workers : boundary_locks[k] = NoOwner)

TerminationWitness ==
    /\ Returned
    /\ NUM_THREADS > 1
    /\ gens_max > 1
    /\ \A w \in Workers : pc[w] = "done" /\ arrivals[w] = 2 * gens_max
    /\ outboard # plain

\* C9: on an all-dead input board the board returned has every cell dead,
\* and at every generation boundary every cell of both buffers is dead with
\* neighbour count 0.  No worker ever selects a cell of such a board, so the
\* buffers are all zero between the boundaries as well.
EmptyStaysEmpty ==
    AllDead(plain) =>
        /\ Returned => AllDead(outboard)
        /\ AtBoundary => (AllDead(inboard) /\ AllDead(outboard))
        /\ AllDead(inboard) /\ AllDead(outboard)

EmptyStaysEmptyWitness ==
    /\ AllDead(plain)
    /\ Returned
    /\ NUM_THREADS > 1
    /\ gens_max > 1
    /\ AllDead(outboard)

\* C10: the engine run on a board shifted on the torus returns the shifted
\* result of the engine run on the board itself.
TranslationEquivariance ==
    Returned =>
        outboard = Shift(SeqEngine(origin.base, nrows, NUM_THREADS, gens_max),
                         nrows, origin.dr, origin.dc)

\* the phases of a worker inside a generation
Processing(w) == pc[w] \in {"check", "lock", "read", "write", "unlock"}
Copying(w) == pc[w] \in {"copy", "barrier2", "wait2"}

\* C11: first rendezvous: while a worker is between the two barrier waits of
\* generation g (copying its row band or done with it), no worker is still
\* in the column-processing phase of generation g: every worker has passed
\* the first barrier of that generation.
FirstRendezvous ==
    \A w, v \in Workers :
        Copying(w) => (Copying(v) /\ curgen[v] = curgen[w])

FirstRendezvousWitness ==
    \E w, v \in Workers :
        /\ w # v
        /\ pc[w] = "copy"
        /\ pc[v] = "barrier2"
        /\ curgen[w] = 1
        /\ inboard # outboard

\* C12: second rendezvous: while a worker is in the column-processing phase
\* of a generation, every other worker is in the column-processing phase of
\* the same generation, waits at its first barrier, or has not started yet;
\* none is still copying the previous generation.
SecondRendezvous ==
    \A w, v \in Workers :
        Processing(w) =>
            /\ Processing(v) \/ pc[v] \in {"idle", "barrier1", "wait1"}
            /\ curgen[v] = curgen[w]

SecondRendezvousWitness ==
    \E w, v \in Workers :
        /\ w # v
        /\ pc[w] = "write"
        /\ pc[v] = "wait1"
        /\ curgen[w] = 1
        /\ curgen[v] = 1

\* the boundary mutex worker v takes for the q-th cell of its walk
MarginLock(v, q) ==
    IF SegAt(q) = "upper" THEN boundary_locks_upper(v)
    ELSE boundary_locks_lower(v)

\* the q-th cell of the walk of worker v can write a cell of `region`
Touches(v, q, region) == Region(RowAt(v, q), ColAt(q)) \cap region # {}

\* C13: whenever a worker reads or writes cells of outboard that a cell of
\* another worker's walk can write too, both cells are margin cells taken
\* under one and the same boundary mutex, and the worker holds that mutex;
\* hence the cells an unlocked body transition writes are written by no
\* other worker.
RaceFreeNext ==
    \A w \in Workers :
        pc[w] \in {"read", "write"} =>
            \A v \in Workers \ {w} :
                \A q \in 1 .. (ncols * RowsPerCol) :
                    Touches(v, q, Region(row_i[w], col_j[w])) =>
                        /\ seg[w] # "body"
                        /\ SegAt(q) # "body"
                        /\ MarginLock(v, q) = LockOf(w)
                        /\ boundary_locks[LockOf(w)] = w

\* worker w stores the cells of its transition in this step
Writes(w) == pc[w] = "write" /\ pc'[w] # "write"

\* C14: inboard is written by the memcpy of a worker between its two barrier
\* waits and by nothing else once the workers are created: no transition
\* writes it; a memcpy changes rows of the worker's own slice [start, end)
\* only, and no worker is in the column loops (where inboard is read) when
\* it happens.
CurrentFrame ==
    [][(inboard' # inboard /\ mainpc # "entry") =>
          \E w \in Workers :
              /\ pc[w] = "copy"
              /\ pc'[w] = "barrier2"
              /\ \A k \in DOMAIN inboard :
                    inboard'[k] # inboard[k] =>
                        /\ start(w) <= k \div ncols
                        /\ k \div ncols < end(w)
              /\ \A v \in Workers : Copying(v)]_vars

CurrentFrameWitness ==
    \E w, v \in Workers :
        /\ w # v
        /\ pc[w] = "barrier2"
        /\ pc[v] = "copy"
        /\ \E k \in DOMAIN inboard :
              /\ k \div ncols \in start(v) .. (end(v) - 1)
              /\ inboard[k] # outboard[k]
        /\ \A k \in DOMAIN inboard :
              k \div ncols \in start(w) .. (end(w) - 1) =>
                  inboard[k] = outboard[k]
        /\ inboard # preprocessing_board(plain, nrows, nrows)

\* board `after` is board `before` with the transition `kind` applied to
\* cell (i, j): the alive flag of the cell cleared or set and its count kept,
\* the count of each of its 8 neighbours one lower or one higher and their
\* flags kept, every other cell kept
EffectOn(before, after, i, j, kind) ==
    \A k \in DOMAIN before :
        IF k = BOARD(i, j, LDA)
        THEN /\ ALIVE(after[k]) = (IF kind = "kill" THEN 0 ELSE 1)
             /\ COUNT(after[k]) = COUNT(before[k])
        ELSE IF k \in Region(i, j)
             THEN /\ ALIVE(after[k]) = ALIVE(before[k])
                  /\ COUNT(after[k]) =
                        COUNT(before[k]) + (IF kind = "kill" THEN -1 ELSE 1)
             ELSE after[k] = before[k]

\* C15: a worker writes outboard only for a cell that is alive in inboard
\* with a count other than 2 and 3 (kill) or dead with count 3 (spawn); the
\* write clears or sets the alive flag of the cell, moves the count of each
\* of its 8 toroidal neighbours by exactly one and changes nothing else; and
\* kill_cell / spawn_cell give what do_cell gives for the cell.
TransitionEffect ==
    [][/\ \A w \in Workers :
            Writes(w) =>
                /\ todo[w] = Decide(inboard[BOARD(row_i[w], col_j[w], LDA)])
                /\ todo[w] \in {"kill", "spawn"}
                /\ EffectOn(outboard, outboard', row_i[w], col_j[w], todo[w])
                /\ Transition(w) =
                       do_cell(View(w), inboard, row_i[w], col_j[w], nrows, LDA)
       /\ (outboard' # outboard /\ mainpc' = mainpc) =>
              \E w \in Workers : Writes(w)]_vars

\* C16: right after preprocessing_board and after the second barrier of
\* every generation, before any worker has written in the next one, inboard
\* and outboard hold the same encoded value in every cell.
BuffersEqualAtStart ==
    AtBoundary => inboard = outboard

BuffersEqualAtStartWitness ==
    /\ AtBoundary
    /\ NUM_THREADS > 1
    /\ \A w \in Workers : pc[w] = "check" /\ curgen[w] = 1
    /\ inboard = outboard
    /\ inboard # preprocessing_board(plain, nrows, nrows)

\* the call of preprocessing_board has just returned
Preprocessed == mainpc = "create" /\ tid = 0

CountInRange ==
    \A k \in DOMAIN inboard :
        /\ COUNT(inboard[k]) \in 0 .. 8
        /\ COUNT(outboard[k]) \in 0 .. 8

\* C19: for a row count in 32..10000 that NUM_THREADS divides, the rows of
\* the upper-margin loop, of the body loop and of the lower-margin loop of
\* every worker are pairwise disjoint and make up its slice [start, end),
\* the slices cover [0, nrows), and the row a worker is at in one of its
\* loops is a row of no other loop: every cell is visited exactly once.
ExactlyOnce ==
    (SeqLimit <= nrows /\ nrows <= SizeLimit /\ nrows % NUM_THREADS = 0) =>
        /\ \A w \in Workers :
            /\ LoopRows(w, "upper") \cap LoopRows(w, "body") = {}
            /\ LoopRows(w, "upper") \cap LoopRows(w, "lower") = {}
            /\ LoopRows(w, "body") \cap LoopRows(w, "lower") = {}
            /\ LoopRows(w, "upper") \cup LoopRows(w, "body")
                   \cup LoopRows(w, "lower") = start(w) .. (end(w) - 1)
        /\ UNION { start(w) .. (end(w) - 1) : w \in Workers } = 0 .. (nrows - 1)
        /\ \A w, v \in Workers :
               w # v => (start(w) .. (end(w) - 1)) \cap (start(v) .. (end(v) - 1)) = {}
        /\ \A w \in Workers :
               pc[w] = "check" =>
                   /\ row_i[w] \in LoopRows(w, seg[w])
                   /\ \A sg \in {"upper", "body", "lower"} \ {seg[w]} :
                          row_i[w] \notin LoopRows(w, sg)

\* the boundary mutexes worker w holds
Held(w) == { k \in DOMAIN boundary_locks : boundary_locks[k] = w }

\* C20: every boundary mutex has at most one holder; a worker holds at most
\* one mutex, and only inside a margin transition (between its lock and its
\* unlock), where it holds exactly the mutex of that margin: mutex k for the
\* upper margin of worker k, mutex (k+1) mod NUM_THREADS for its lower
\* margin; so a worker at the barrier, idle or returned holds none, and the
\* lower mutex of a slice is the upper mutex of the next one.
LockDiscipline ==
    /\ \A k \in DOMAIN boundary_locks :
           boundary_locks[k] \in Workers \cup {NoOwner}
    /\ \A w \in Workers :
        /\ Cardinality(Held(w)) <= 1
        /\ IF pc[w] \in {"read", "write", "unlock"} /\ seg[w] # "body"
           THEN Held(w) = { LockOf(w) }
           ELSE Held(w) = {}
        /\ LockOf(w) \in { w, (w + 1) % NUM_THREADS }
        /\ boundary_locks_lower(w) =
               boundary_locks_upper((w + 1) % NUM_THREADS)

LockDisciplineWitness ==
    \E w, v \in Workers :
        /\ w # v
        /\ pc[w] = "write"
        /\ seg[w] = "lower"
        /\ boundary_locks[boundary_locks_lower(w)] = w
        /\ pc[v] = "lock"
        /\ seg[v] = "upper"
        /\ LockOf(v) = LockOf(w)

=============================================================================
